---- MODULE Spec2Model ----
(***************************************************************************)
(* A model of the HSP interpreter (src/hsp.py): the session state of the   *)
(* class HSP, the line dispatcher, the pool registry, the draw simulator,  *)
(* the loop-record simulator, the condition evaluator and the expression   *)
(* evaluator.                                                              *)
(*                                                                         *)
(* Texts are sequences of symbols.  An ASCII character is the one-letter   *)
(* string that holds it; the non-ASCII glyphs of the language are the      *)
(* symbols "pi" (the pi glyph), "mul" and "div" (the multiplication and    *)
(* division glyphs), "lg", "ln" and "sqrt" (the function glyphs).          *)
(***************************************************************************)
EXTENDS Integers, Sequences, FiniteSets

VARIABLES pools,        \* self.pools: pool name -> [prob, items, per_item]
          vars,         \* self.vars: variable name (text) -> value
          output,       \* self.output: the messages, in order
          stats,        \* self.stats: draws, success, start_time, lines
          last_record,  \* self.last_record
          clock,        \* time.time(), a logical clock
          pc,           \* where run() is: "idle", "loop" or "returned"
          script,       \* the lines of the script run() is executing
          idx,          \* run()'s loop index i (0-based: lines consumed)
          returned,     \* what the last run() returned
          dispatched,   \* history: the lines run() handed to execute_line
          last,         \* history: what the last handler call did
          call          \* the pure-function call under check: arg and result

vars_all == <<pools, vars, output, stats, last_record, clock, pc, script,
              idx, returned, dispatched, last, call>>

(***************************************************************************)
(* Bounds.                                                                 *)
(***************************************************************************)
MaxNameLen == 2      \* longest variable name in an expression
MaxScript  == 2      \* longest script handed to run()
MaxDraws   == 4      \* cap on the cumulative draw counter
MaxOut     == 3      \* cap on the length of the output log
MaxClock   == 2      \* cap on the logical clock (number of run() calls)
MaxTimes   == 2      \* largest trial count of a loop-record statement
MaxGuar    == 2      \* largest guarantee count of a goal
MaxBatch   == 2      \* largest batch size of a goal

(***************************************************************************)
(* Text primitives: str.startswith, `in`, str.split, str.replace,          *)
(* str.strip.                                                              *)
(***************************************************************************)
IsPrefixAt(t, p, k) ==
    /\ k + Len(p) - 1 <= Len(t)
    /\ \A j \in 1..Len(p) : t[k + j - 1] = p[j]

StartsWith(t, p) == IsPrefixAt(t, p, 1)

EndsWith(t, p) == Len(p) <= Len(t) /\ IsPrefixAt(t, p, Len(t) - Len(p) + 1)

Contains(t, p) == \E k \in 1..Len(t) : IsPrefixAt(t, p, k)

RECURSIVE SplitFrom(_, _, _, _)
SplitFrom(t, sep, k, cur) ==
    IF k > Len(t) THEN <<cur>>
    ELSE IF IsPrefixAt(t, sep, k)
         THEN <<cur>> \o SplitFrom(t, sep, k + Len(sep), <<>>)
         ELSE SplitFrom(t, sep, k + 1, Append(cur, t[k]))

Split(t, sep) == SplitFrom(t, sep, 1, <<>>)

RECURSIVE ReplaceFrom(_, _, _, _)
ReplaceFrom(t, old, new, k) ==
    IF k > Len(t) THEN <<>>
    ELSE IF IsPrefixAt(t, old, k)
         THEN new \o ReplaceFrom(t, old, new, k + Len(old))
         ELSE <<t[k]>> \o ReplaceFrom(t, old, new, k + 1)

Replace(t, old, new) == ReplaceFrom(t, old, new, 1)

RECURSIVE LStrip(_)
LStrip(t) == IF t # <<>> /\ Head(t) = " " THEN LStrip(Tail(t)) ELSE t

RECURSIVE RStrip(_)
RStrip(t) ==
    IF t # <<>> /\ t[Len(t)] = " " THEN RStrip(SubSeq(t, 1, Len(t) - 1)) ELSE t

Strip(t) == RStrip(LStrip(t))

(***************************************************************************)
(* Characters.                                                             *)
(***************************************************************************)
Digits == {"0", "1", "2", "3", "4", "5", "6", "7", "8", "9"}

DigitVal(c) ==
    CASE c = "0" -> 0 [] c = "1" -> 1 [] c = "2" -> 2 [] c = "3" -> 3
      [] c = "4" -> 4 [] c = "5" -> 5 [] c = "6" -> 6 [] c = "7" -> 7
      [] c = "8" -> 8 [] c = "9" -> 9

DigitChar(d) ==
    CASE d = 0 -> "0" [] d = 1 -> "1" [] d = 2 -> "2" [] d = 3 -> "3"
      [] d = 4 -> "4" [] d = 5 -> "5" [] d = 6 -> "6" [] d = 7 -> "7"
      [] d = 8 -> "8" [] d = 9 -> "9"

Letters == {"a", "b", "e", "f", "g", "h", "i", "l", "m", "o", "q", "r", "s",
            "t", "x", "A"}

\* the characters the regular expression class \w matches (the pi glyph is
\* a Unicode letter)
WordChars == Letters \cup Digits \cup {"_", "pi"}

\* ord(c) of the characters that conditions are written with
CodePoint(c) ==
    CASE c = " " -> 32 [] c = "!" -> 33 [] c = "#" -> 35 [] c = "&" -> 38
      [] c = "(" -> 40 [] c = ")" -> 41 [] c = "." -> 46
      [] c \in Digits -> 48 + DigitVal(c)
      [] c = "<" -> 60 [] c = "=" -> 61 [] c = ">" -> 62 [] c = "A" -> 65
      [] c = "_" -> 95 [] c = "a" -> 97 [] c = "b" -> 98 [] c = "e" -> 101
      [] c = "f" -> 102 [] c = "g" -> 103 [] c = "h" -> 104
      [] c = "i" -> 105 [] c = "l" -> 108 [] c = "m" -> 109
      [] c = "o" -> 111 [] c = "q" -> 113 [] c = "r" -> 114
      [] c = "s" -> 115 [] c = "t" -> 116
      [] c = "x" -> 120 [] c = "pi" -> 960

(***************************************************************************)
(* Values.  An int is [t |-> "int", n]; a float written as a decimal is    *)
(* [t |-> "float", ip, fr] (integer part, fraction digits without trailing *)
(* zeros); a float that is a quotient is [t |-> "float", num, den]; a      *)
(* string is [t |-> "str", s].                                             *)
(***************************************************************************)
IntV(n) == [t |-> "int", n |-> n]
Dec(ip, fr) == [t |-> "float", ip |-> ip, fr |-> fr]
StrV(s) == [t |-> "str", s |-> s]

RECURSIVE Gcd(_, _)
Gcd(a, b) == IF b = 0 THEN a ELSE Gcd(b, a % b)

\* the quotient n / d, d > 0, n >= 0, in lowest terms
Quot(n, d) ==
    LET g == Gcd(n, d) IN [t |-> "float", num |-> n \div g, den |-> d \div g]

IsQuot(v) == "num" \in DOMAIN v
IsDec(v) == "ip" \in DOMAIN v
IsNum(v) == v.t \in {"int", "float"}

RECURSIVE Pow10(_)
Pow10(k) == IF k = 0 THEN 1 ELSE 10 * Pow10(k - 1)

RECURSIVE DigitsToInt(_)
DigitsToInt(ds) ==
    IF ds = <<>> THEN 0
    ELSE 10 * DigitsToInt(SubSeq(ds, 1, Len(ds) - 1)) + DigitVal(ds[Len(ds)])

RECURSIVE IntToDigits(_)
IntToDigits(n) ==
    IF n < 10 THEN <<DigitChar(n)>>
    ELSE Append(IntToDigits(n \div 10), DigitChar(n % 10))

\* a numeric value as the pair numerator, denominator
AsRat(v) ==
    IF v.t = "int" THEN [num |-> v.n, den |-> 1]
    ELSE IF IsQuot(v) THEN [num |-> v.num, den |-> v.den]
    ELSE [num |-> v.ip * Pow10(Len(v.fr)) + DigitsToInt(v.fr),
          den |-> Pow10(Len(v.fr))]

\* numeric == and < of two decimals are decided digit by digit, so that a
\* long fraction never needs a large integer
RECURSIVE FracLess(_, _)
FracLess(f, g) ==
    IF g = <<>> THEN FALSE
    ELSE IF f = <<>> THEN TRUE
    ELSE IF Head(f) # Head(g) THEN DigitVal(Head(f)) < DigitVal(Head(g))
    ELSE FracLess(Tail(f), Tail(g))

\* an int or a decimal float as a decimal
AsDec(v) == IF v.t = "int" THEN Dec(v.n, <<>>) ELSE v

NumEq(a, b) ==
    IF ~IsQuot(a) /\ ~IsQuot(b)
    THEN AsDec(a).ip = AsDec(b).ip /\ AsDec(a).fr = AsDec(b).fr
    ELSE AsRat(a).num * AsRat(b).den = AsRat(b).num * AsRat(a).den

NumLess(a, b) ==
    IF ~IsQuot(a) /\ ~IsQuot(b)
    THEN \/ AsDec(a).ip < AsDec(b).ip
         \/ AsDec(a).ip = AsDec(b).ip /\ FracLess(AsDec(a).fr, AsDec(b).fr)
    ELSE AsRat(a).num * AsRat(b).den < AsRat(b).num * AsRat(a).den

RECURSIVE StrLess(_, _)
StrLess(s, u) ==
    IF u = <<>> THEN FALSE
    ELSE IF s = <<>> THEN TRUE
    ELSE IF Head(s) # Head(u) THEN CodePoint(Head(s)) < CodePoint(Head(u))
    ELSE StrLess(Tail(s), Tail(u))

(***************************************************************************)
(* Python's conversions: str(value), float(text), and eval of a text that  *)
(* is made of digits, dots and identifier characters.                      *)
(***************************************************************************)
AllDigits(t) == \A k \in 1..Len(t) : t[k] \in Digits

RECURSIVE StripZeros(_)
StripZeros(ds) ==
    IF ds # <<>> /\ ds[Len(ds)] = "0"
    THEN StripZeros(SubSeq(ds, 1, Len(ds) - 1)) ELSE ds

\* the first k digits of the fraction rem / den
RECURSIVE FracDigits(_, _, _)
FracDigits(rem, den, k) ==
    IF k = 0 \/ rem = 0 THEN <<>>
    ELSE <<DigitChar((rem * 10) \div den)>>
         \o FracDigits((rem * 10) % den, den, k - 1)

ReprFracDigits == 14

FloatText(ip, fr) ==
    IntToDigits(ip) \o <<".">> \o (IF fr = <<>> THEN <<"0">> ELSE fr)

PyStr(v) ==
    IF v.t = "str" THEN v.s
    ELSE IF v.t = "int" THEN IntToDigits(v.n)
    ELSE IF IsQuot(v)
         THEN FloatText(v.num \div v.den,
                        FracDigits(v.num % v.den, v.den, ReprFracDigits))
         ELSE FloatText(v.ip, v.fr)

\* the text is  digits [ "." digits ]  with at least one digit
IsDecimalText(t) ==
    /\ \E k \in 1..Len(t) : t[k] \in Digits
    /\ \A k \in 1..Len(t) : t[k] \in Digits \cup {"."}
    /\ Cardinality({k \in 1..Len(t) : t[k] = "."}) <= 1

\* the index of the "." of a decimal text, or the index after its end
DotIndex(t) ==
    IF Contains(t, <<".">>) THEN CHOOSE k \in 1..Len(t) : t[k] = "."
    ELSE Len(t) + 1

DecimalParts(t, dot) ==
    Dec(DigitsToInt(SubSeq(t, 1, dot - 1)),
        StripZeros(SubSeq(t, dot + 1, Len(t))))

DecimalValue(t) == DecimalParts(t, DotIndex(t))

FloatOf(t, text) ==
    IF IsDecimalText(t) THEN [ok |-> TRUE, val |-> DecimalValue(t)]
    ELSE [ok |-> FALSE, val |-> StrV(text)]

\* float(text): ok is FALSE where float raises ValueError, and val is then
\* the text
PyFloat(text) == FloatOf(Strip(text), text)

\* an integer literal may not start with 0 unless it is all zeros
IsIntLiteral(t) ==
    /\ t # <<>>
    /\ AllDigits(t)
    /\ (Head(t) = "0" => \A k \in 1..Len(t) : t[k] = "0")

\* eval(text, {"__builtins__": {}, "math": math}): a numeric literal is its
\* value; any other text of digits, dots and identifier characters raises
\* SyntaxError or NameError
PyEval(t) ==
    IF IsIntLiteral(t) THEN [ok |-> TRUE, val |-> IntV(DigitsToInt(t))]
    ELSE IF IsDecimalText(t) /\ Contains(t, <<".">>)
         THEN [ok |-> TRUE, val |-> DecimalValue(t)]
         ELSE [ok |-> FALSE, val |-> IntV(0)]

\* float(number)
ToFloat(v) == AsDec(v)

(***************************************************************************)
(* HSP.eval_math                                                           *)
(***************************************************************************)
Envelope == <<"&", "A", "(">>

\* str(math.pi) and str(math.e)
PiText == <<"3", ".", "1", "4", "1", "5", "9", "2", "6", "5", "3", "5", "8",
            "9", "7", "9", "3">>
EText  == <<"2", ".", "7", "1", "8", "2", "8", "1", "8", "2", "8", "4", "5",
            "9", "0", "4", "5">>

\* the end of the longest run of word characters that starts at k
RECURSIVE WordEnd(_, _)
WordEnd(t, k) ==
    IF k + 1 <= Len(t) /\ t[k + 1] \in WordChars THEN WordEnd(t, k + 1) ELSE k

\* re.sub(r'#(\w+)', replace_var, expr) with
\* replace_var = str(self.vars.get(name, 0))
RECURSIVE SubVarsFrom(_, _, _)
SubVarsFrom(t, vs, k) ==
    IF k > Len(t) THEN <<>>
    ELSE IF t[k] = "#" /\ k + 1 <= Len(t) /\ t[k + 1] \in WordChars
         THEN LET e == WordEnd(t, k + 1)
                  name == SubSeq(t, k + 1, e)
                  val == IF name \in DOMAIN vs THEN vs[name] ELSE IntV(0)
              IN  PyStr(val) \o SubVarsFrom(t, vs, e + 1)
         ELSE <<t[k]>> \o SubVarsFrom(t, vs, k + 1)

SubVars(t, vs) == SubVarsFrom(t, vs, 1)

\* the text that eval_math hands to eval
MathText(expr, vs) ==
    LET e0 == SubSeq(expr, 4, Len(expr) - 1)
        e1 == Replace(Replace(Replace(e0, <<"mul">>, <<"*">>),
                              <<"div">>, <<"/">>), <<"^">>, <<"*", "*">>)
        e2 == Replace(Replace(e1, <<"pi">>, PiText), <<"e">>, EText)
        e3 == SubVars(e2, vs)
        e4 == Replace(e3, <<"lg">>,
                      <<"m", "a", "t", "h", ".", "l", "o", "g", "1", "0">>)
        e5 == Replace(e4, <<"ln">>, <<"m", "a", "t", "h", ".", "l", "o", "g">>)
        e6 == Replace(e5, <<"sqrt">>,
                      <<"m", "a", "t", "h", ".", "s", "q", "r", "t">>)
    IN  Replace(e6, <<"a", "b", "s">>,
                <<"m", "a", "t", "h", ".", "f", "a", "b", "s">>)

\* val is the value returned; err tells that the computation-error message
\* was printed
MathResult(r) ==
    IF r.ok THEN [val |-> ToFloat(r.val), err |-> FALSE]
    ELSE [val |-> IntV(0), err |-> TRUE]

eval_math(expr, vs) == MathResult(PyEval(MathText(expr, vs)))

MathMsgs(m) == IF m.err THEN <<"math_error">> ELSE <<>>

(***************************************************************************)
(* HSP.eval_value and HSP.eval_condition                                   *)
(***************************************************************************)
MathValue(m) == [val |-> m.val, msgs |-> MathMsgs(m)]

ValueOf(t, vs) ==
    IF StartsWith(t, Envelope) THEN MathValue(eval_math(t, vs))
    ELSE IF StartsWith(t, <<"#">>)
    THEN [val |-> IF Tail(t) \in DOMAIN vs THEN vs[Tail(t)] ELSE IntV(0),
          msgs |-> <<>>]
    ELSE [val |-> PyFloat(t).val, msgs |-> <<>>]

eval_value(token, vs) == ValueOf(Strip(token), vs)

\* the operators in the order the dict ops lists them
Ops == << <<">">>, <<"<">>, <<">", "=">>, <<"<", "=">>, <<"=", "=">>,
          <<"!", "=">> >>

Ordered(op, eq, lt, gt) ==
    IF op = <<">">> THEN gt
    ELSE IF op = <<"<">> THEN lt
    ELSE IF op = <<">", "=">> THEN gt \/ eq
    ELSE lt \/ eq

\* ops[op](a, b): exc is "TypeError" where Python cannot order the operands
Compare(op, a, b) ==
    IF IsNum(a) /\ IsNum(b)
    THEN [exc |-> "none",
          val |-> IF op = <<"=", "=">> THEN NumEq(a, b)
                  ELSE IF op = <<"!", "=">> THEN ~NumEq(a, b)
                  ELSE Ordered(op, NumEq(a, b), NumLess(a, b), NumLess(b, a))]
    ELSE IF a.t = "str" /\ b.t = "str"
    THEN [exc |-> "none",
          val |-> IF op = <<"=", "=">> THEN a.s = b.s
                  ELSE IF op = <<"!", "=">> THEN a.s # b.s
                  ELSE Ordered(op, a.s = b.s, StrLess(a.s, b.s),
                               StrLess(b.s, a.s))]
    ELSE IF op = <<"=", "=">> THEN [exc |-> "none", val |-> FALSE]
    ELSE IF op = <<"!", "=">> THEN [exc |-> "none", val |-> TRUE]
    ELSE [exc |-> "TypeError", val |-> FALSE]

\* the result of the split that decided: the comparison of the two values,
\* what evaluating them printed, the operator and the two parts
Compared(op, l, r, c) ==
    [exc |-> c.exc, val |-> c.val, msgs |-> l.msgs \o r.msgs, op |-> op,
     parts |-> <<l.tok, r.tok>>]

Operand(token, v) == [val |-> v.val, msgs |-> v.msgs, tok |-> token]

SplitCompared(op, l, r) == Compared(op, l, r, Compare(op, l.val, r.val))

\* the loop of eval_condition from the k-th operator on
RECURSIVE EvalCondFrom(_, _, _)

CondAt(cond, vs, k, op, parts) ==
    IF Contains(cond, op) /\ Len(parts) = 2
    THEN SplitCompared(op,
           Operand(Strip(parts[1]), eval_value(Strip(parts[1]), vs)),
           Operand(Strip(parts[2]), eval_value(Strip(parts[2]), vs)))
    ELSE EvalCondFrom(cond, vs, k + 1)

EvalCondFrom(cond, vs, k) ==
    IF k > Len(Ops)
    THEN [exc |-> "none", val |-> FALSE, msgs |-> <<>>, op |-> <<>>,
          parts |-> <<>>]
    ELSE CondAt(cond, vs, k, Ops[k], Split(cond, Ops[k]))

eval_condition(cond, vs) == EvalCondFrom(cond, vs, 1)

(***************************************************************************)
(* The session after HSP.__init__.                                         *)
(***************************************************************************)
EmptyMap == [n \in {} |-> 0]

NoStartTime == 0     \* start_time is None

InitStats ==
    [draws |-> 0, success |-> 0, start_time |-> NoStartTime, lines |-> 0]

NoLast == [op |-> "none"]
NoCall == [fn |-> "none"]

\* every field but the variable store
InitFields ==
    /\ pools = EmptyMap
    /\ output = <<>>
    /\ stats = InitStats
    /\ last_record = EmptyMap
    /\ clock = 0
    /\ pc = "idle"
    /\ script = <<>>
    /\ idx = 0
    /\ returned = <<>>
    /\ dispatched = <<>>
    /\ last = NoLast

\* HSP.print appends the message to the output log
Appended(out, msgs) == out \o msgs

(***************************************************************************)
(* Statements.  A line is a record: k is the form of its text and the      *)
(* other fields are the parts its handler reads.                           *)
(*   blank    the empty line                                               *)
(*   comment  a line that starts with the cent glyph, not followed by ","  *)
(*   output   cent glyph, ",", a text                                      *)
(*   pool     "(" prob ":/" items ")#" name; shape "nomatch" is a line     *)
(*            with ")#" and ":/" that the pool pattern does not match      *)
(*   goal     "<$" item ",#" pool "*" batch ",*" guar ">"; sc tells that   *)
(*            "*," follows in the line; shape "nomatch" is a line that     *)
(*            starts with "<" and holds "*," that the goal pattern does    *)
(*            not match                                                    *)
(*   assign   "#" name " = " rhs                                           *)
(*   math     the envelope "&A(" ... ")"                                   *)
(*   loop     "#" cent "{" label "}" plus-minus "(" times ")"; shape       *)
(*            "nomatch" has no digits between the parentheses              *)
(*   stats    "#stats"                                                     *)
(*   clear    "#clear"                                                     *)
(*   cond     "?(" cond ") => " action                                     *)
(*   other    any other text                                               *)
(***************************************************************************)
Session ==
    [pools |-> pools, vars |-> vars, output |-> output, stats |-> stats,
     last_record |-> last_record]

\* the outcome of a handler: the session it leaves, whether it raised, the
\* branches it took and the number of random numbers it drew
Outcome(S, raised, trail, checks) ==
    [s |-> S, raised |-> raised, trail |-> trail, checks |-> checks]

Emit(S, msgs) == [S EXCEPT !.output = Appended(@, msgs)]

VarKey(name) == IF StartsWith(name, <<"#">>) THEN Tail(name) ELSE name

Bound(vs, n, value) ==
    [m \in DOMAIN vs \cup {n} |-> IF m = n THEN value ELSE vs[m]]

\* HSP.set_var
set_var(vs, name, value) == Bound(vs, VarKey(name), value)

IntOf(t) ==
    IF t # <<>> /\ AllDigits(t) THEN [ok |-> TRUE, val |-> DigitsToInt(t)]
    ELSE [ok |-> FALSE, val |-> 0]

\* int(text): ok is FALSE where int raises ValueError
PyInt(text) == IntOf(Strip(text))

BadProb == [ok |-> FALSE, val |-> Quot(0, 1)]

RatProb(r) == [ok |-> TRUE, val |-> Quot(r.num, r.den)]

\* float(parts[0]) * (10 ** int(parts[1])), or ** -int(parts[1])
Scaled(r, e, up) ==
    IF up THEN Quot(r.num * Pow10(e), r.den) ELSE Quot(r.num, r.den * Pow10(e))

SciProb(m, e, up) ==
    IF m.ok /\ e.ok
    THEN [ok |-> TRUE, val |-> Scaled(AsRat(m.val), e.val, up)]
    ELSE BadProb

SciParts(parts, up) == SciProb(PyFloat(parts[1]), PyInt(parts[2]), up)

PlainProb(f) == IF f.ok THEN RatProb(AsRat(f.val)) ELSE BadProb

ProbOf(t) ==
    IF Contains(t, <<"/", "-">>) THEN SciParts(Split(t, <<"/", "-">>), FALSE)
    ELSE IF Contains(t, <<"/", "+">>)
    THEN SciParts(Split(t, <<"/", "+">>), TRUE)
    ELSE IF EndsWith(t, <<"/">>) THEN PlainProb(PyFloat(SubSeq(t, 1, Len(t) - 1)))
    ELSE PlainProb(PyFloat(t))

\* HSP.parse_prob: ok is FALSE where float or int raises ValueError
parse_prob(prob_str) == ProbOf(Strip(prob_str))

\* per_item = prob / len(item_list)
PerItem(prob, item_list) == Quot(prob.num, prob.den * Len(item_list))

\* an entry that keeps the items of the pool it replaces
PoolEntryMerged(old, name, prob, item_list) ==
    [prob |-> prob,
     items |-> IF name \in DOMAIN old THEN old[name].items \o item_list
               ELSE item_list,
     per_item |-> PerItem(prob, IF name \in DOMAIN old
                                THEN old[name].items \o item_list
                                ELSE item_list)]

\* the entry define_pool stores under the name
PoolEntry(old, name, prob, item_list) ==
    [prob |-> prob, items |-> item_list, per_item |-> PerItem(prob, item_list)]

PoolsWith(ps, name, e) ==
    [n \in DOMAIN ps \cup {name} |-> IF n = name THEN e ELSE ps[n]]

StorePool(line, S, p) ==
    IF ~p.ok THEN Outcome(S, TRUE, <<"pool_valueerror">>, 0)
    ELSE Outcome(
           Emit([S EXCEPT !.pools =
                   PoolsWith(@, line.name,
                             PoolEntry(@, line.name, p.val, line.items))],
                <<"pool">>),
           FALSE, <<"pool_defined">>, 0)

\* HSP.define_pool
define_pool(line, S) ==
    IF line.shape = "ok" THEN StorePool(line, S, parse_prob(line.prob))
    ELSE Outcome(Emit(S, <<"pool_format_error">>), FALSE,
                 <<"pool_format_error">>, 0)

\* the name execute_goal gives to set_var: f"${item}"
ItemVar(item) == <<"$">> \o item

\* random.random() * 100 < pool['per_item'], the random number being r / 100
IsHit(r, per_item) == r * per_item.den < per_item.num

\* a hit that leaves the cumulative draws alone
HitDrawsUncounted(draws) == 0

\* what the hit branch adds to the cumulative draws
HitDraws(draws) == draws

\* the goal declaration printed before the pool is looked up
MissingPoolMsgsAfterGoal == <<"goal", "pool_missing">>

\* what execute_goal prints when the pool is not in the registry
MissingPoolMsgs == <<"pool_missing">>

\* the loop of execute_goal from checkpoint i on; c counts the checkpoints
\* evaluated before it
RECURSIVE GoalLoop(_, _, _, _, _, _)

Checkpoint(line, per_item, S, rolls, i, c, draws) ==
    IF IsHit(rolls[c + 1], per_item)
    THEN Outcome(
           [Emit(S, <<"hit">>) EXCEPT
              !.stats.success = @ + 1,
              !.stats.draws = @ + HitDraws(draws),
              !.vars = set_var(@, ItemVar(line.item), IntV(1))],
           FALSE, <<"goal_hit">>, c + 1)
    ELSE GoalLoop(line, per_item,
                  IF draws % 10 = 0 THEN Emit(S, <<"progress">>) ELSE S,
                  rolls, i + line.batch, c + 1)

GoalLoop(line, per_item, S, rolls, i, c) ==
    IF i > line.guar
    THEN Outcome(
           [Emit(S, <<"guarantee">>) EXCEPT
              !.stats.draws = @ + line.guar,
              !.vars = set_var(@, ItemVar(line.item), IntV(1))],
           FALSE, <<"goal_guarantee">>, c)
    ELSE Checkpoint(line, per_item, S, rolls, i, c,
                    IF i + line.batch - 1 < line.guar
                    THEN i + line.batch - 1 ELSE line.guar)

\* HSP.execute_goal
execute_goal(line, S, rolls) ==
    IF line.shape = "ok"
    THEN IF line.pool \notin DOMAIN S.pools
         THEN Outcome(Emit(S, MissingPoolMsgs), FALSE, <<"goal_no_pool">>, 0)
         ELSE IF line.batch = 0
         THEN \* range() arg 3 must not be zero
              Outcome(Emit(S, <<"goal">>), TRUE, <<"goal_valueerror">>, 0)
         ELSE GoalLoop(line, S.pools[line.pool].per_item,
                       Emit(S, <<"goal">>), rolls, 1, 0)
    ELSE Outcome(Emit(S, <<"goal_format_error">>), FALSE,
                 <<"goal_format_error">>, 0)

\* the previous-rate reference "#" cent ".rate"
RateRef == <<"#", "cent", ".", "r", "a", "t", "e">>
Quote == "\""

\* the value assign_var resolves the right-hand side to; m is eval_math
\* of it
AssignedValue(v, S, m) ==
    IF v = RateRef
    THEN IF "rate" \in DOMAIN S.last_record THEN S.last_record.rate
         ELSE IntV(0)
    ELSE IF StartsWith(v, Envelope) THEN m.val
    ELSE IF StartsWith(v, <<Quote>>) /\ EndsWith(v, <<Quote>>)
         THEN StrV(SubSeq(v, 2, Len(v) - 1))
    ELSE PyFloat(v).val

Assigned(line, S, m) ==
    Outcome(Emit([S EXCEPT !.vars = set_var(@, line.name,
                                            AssignedValue(line.rhs, S, m))],
                 (IF line.rhs # RateRef /\ StartsWith(line.rhs, Envelope)
                  THEN MathMsgs(m) ELSE <<>>) \o <<"assign">>),
            FALSE, <<"assign">>, 0)

\* HSP.assign_var
assign_var(line, S) == Assigned(line, S, eval_math(line.rhs, S.vars))

\* a rate that is a fraction of 1
LoopRateFraction(success, times) == Quot(success, times)

\* rate = success / times * 100
LoopRate(success, times) == Quot(100 * success, times)

\* the number of trials i in 1..n with random.random() < 0.5
RECURSIVE CountSuccess(_, _)
CountSuccess(rolls, n) ==
    IF n = 0 THEN 0
    ELSE CountSuccess(rolls, n - 1) + (IF rolls[n] < 50 THEN 1 ELSE 0)

\* the progress messages of n trials: one whenever (i + 1) is a multiple
\* of max(1, times // 10)
RECURSIVE LoopProgress(_, _)
LoopProgress(times, n) ==
    LET step == IF times \div 10 > 1 THEN times \div 10 ELSE 1
    IN  IF n = 0 THEN <<>>
        ELSE LoopProgress(times, n - 1)
             \o (IF n % step = 0 THEN <<"loop_progress">> ELSE <<>>)

CentSuccess == <<"cent", ".", "s", "u", "c", "c", "e", "s", "s">>
CentTotal   == <<"cent", ".", "t", "o", "t", "a", "l">>
CentRate    == <<"cent", ".", "r", "a", "t", "e">>

LoopVars(vs, success, times, rate) ==
    set_var(set_var(set_var(vs, CentSuccess, IntV(success)),
                    CentTotal, IntV(times)),
            CentRate, rate)

Recorded(S, success, times, rate) ==
    Outcome([Emit(S, <<"loop_summary">>) EXCEPT
               !.last_record = [success |-> IntV(success),
                                total |-> IntV(times), rate |-> rate],
               !.vars = LoopVars(@, success, times, rate)],
            FALSE, <<"loop_record">>, times)

Looped(S, success, times) ==
    IF times = 0
    THEN \* division by zero
         Outcome(S, TRUE, <<"loop_zerodivision">>, 0)
    ELSE Recorded(S, success, times, LoopRate(success, times))

\* HSP.loop_record
loop_record(line, S, rolls) ==
    IF line.shape = "ok"
    THEN Looped(Emit(S, <<"loop">> \o LoopProgress(line.times, line.times)),
                CountSuccess(rolls, line.times), line.times)
    ELSE Outcome(S, FALSE, <<"loop_nomatch">>, 0)

\* HSP.show_stats: it writes to the console only; it raises TypeError when
\* start_time is still None
show_stats(S) ==
    Outcome(S, S.stats.start_time = NoStartTime, <<"stats">>, 0)

\* the rate show_stats reports when draws > 0
StatsRate(st) == Quot(100 * st.success, st.draws)

MathLine(S, m) ==
    Outcome(Emit(S, MathMsgs(m) \o <<"math_result">>), FALSE, <<"math">>, 0)

Nested(r) == Outcome(r.s, r.raised, <<"cond_true">> \o r.trail, r.checks)

\* HSP.execute_line, with HSP.execute_condition
RECURSIVE execute_line(_, _, _)

\* execute_condition once the condition is evaluated to c
Branch(line, S, rolls, c) ==
    IF c.exc # "none"
    THEN Outcome(Emit(S, c.msgs), TRUE, <<"cond_typeerror">>, 0)
    ELSE IF c.val
    THEN Nested(execute_line(line.action,
                             Emit(S, c.msgs \o <<"cond_true">>), rolls))
    ELSE Outcome(Emit(S, c.msgs \o <<"cond_false">>), FALSE,
                 <<"cond_false">>, 0)

execute_line(line, S, rolls) ==
    IF line.k = "output"
    THEN Outcome(Emit(S, <<"text">>), FALSE, <<"output">>, 0)
    ELSE IF line.k = "pool" THEN define_pool(line, S)
    ELSE IF line.k = "goal" /\ line.sc THEN execute_goal(line, S, rolls)
    ELSE IF line.k = "assign" THEN assign_var(line, S)
    ELSE IF line.k = "math" THEN MathLine(S, eval_math(line.text, S.vars))
    ELSE IF line.k = "loop" THEN loop_record(line, S, rolls)
    ELSE IF line.k = "stats" THEN show_stats(S)
    ELSE IF line.k = "clear"
    THEN Outcome(Emit([S EXCEPT !.vars = EmptyMap], <<"clear">>), FALSE,
                 <<"clear">>, 0)
    ELSE IF line.k = "cond"
    THEN Branch(line, S, rolls, eval_condition(line.cond, S.vars))
    ELSE Outcome(Emit(S, <<"pending">>), FALSE, <<"pending">>, 0)

(***************************************************************************)
(* The statements and the random numbers the session is driven with.       *)
(***************************************************************************)
VarX == <<"x">>

\* random.random() * 100
Rolls == {0, 50, 99}

MaxRolls == IF MaxGuar > MaxTimes THEN MaxGuar ELSE MaxTimes

RollSeqs == [1..MaxRolls -> Rolls]

\* an upper bound on the random numbers the handler of a line draws
RECURSIVE Draws(_)
Draws(line) ==
    IF line.k = "cond" THEN Draws(line.action)
    ELSE IF line.k = "goal" /\ line.shape = "ok" THEN line.guar
    ELSE IF line.k = "loop" /\ line.shape = "ok" THEN line.times
    ELSE 0

\* the random numbers a line is run with; those it never draws are fixed
RollsFor(line) == { r \in RollSeqs : \A j \in 1..MaxRolls : j > Draws(line) => r[j] = 0 }

ItemA == <<"a">>

PoolLine(prob, items, name) ==
    [k |-> "pool", shape |-> "ok", prob |-> prob, items |-> items,
     name |-> name]

GoalLine(pool, batch, guar, sc) ==
    [k |-> "goal", shape |-> "ok", item |-> ItemA, pool |-> pool,
     batch |-> batch, guar |-> guar, sc |-> sc]

PoolLines ==
    { PoolLine(<<"0">>, <<"a">>, "p"),
      PoolLine(<<"1", "0", "0">>, <<"a">>, "p"),
      PoolLine(<<"1", "0", "0">>, <<"a", "b">>, "p"),
      PoolLine(<<"1", "/", "-", "1">>, <<"a", "b">>, "q"),
      PoolLine(<<"a", "b">>, <<"a">>, "p"),
      [k |-> "pool", shape |-> "nomatch"] }

GoalLines ==
    { GoalLine("p", b, g, TRUE) : b \in 0..MaxBatch, g \in 0..MaxGuar }
    \cup { GoalLine("z", 1, 1, TRUE), GoalLine("z", 1, 1, FALSE),
           GoalLine("p", 1, 2, FALSE),
           [k |-> "goal", shape |-> "nomatch", sc |-> TRUE] }

AssignLines ==
    { [k |-> "assign", name |-> VarX, rhs |-> <<"5">>],
      [k |-> "assign", name |-> VarX, rhs |-> <<Quote, "h", "i", Quote>>],
      [k |-> "assign", name |-> <<"r">>, rhs |-> RateRef] }

LoopLines ==
    { [k |-> "loop", shape |-> "ok", times |-> n] : n \in 0..MaxTimes }
    \cup { [k |-> "loop", shape |-> "nomatch"] }

CondLines ==
    { [k |-> "cond", cond |-> <<"#", "x", ">", "=", "5">>,
       action |-> [k |-> "clear"]],
      [k |-> "cond", cond |-> <<"#", "x", "=", "=", "5">>,
       action |-> [k |-> "other"]] }

SimpleLines ==
    { [k |-> "comment"], [k |-> "output"], [k |-> "stats"], [k |-> "clear"],
      [k |-> "other"],
      [k |-> "math", text |-> Envelope \o <<"#", "x", ")">>] }

\* the lines handed to execute_line one at a time
Lines ==
    PoolLines \cup GoalLines \cup AssignLines \cup LoopLines \cup CondLines
    \cup SimpleLines

\* the lines scripts are made of
ScriptLines ==
    { [k |-> "blank"], [k |-> "comment"],
      PoolLine(<<"1", "0", "0">>, <<"a", "b">>, "p"),
      PoolLine(<<"a", "b">>, <<"a">>, "p"),
      GoalLine("p", 1, 2, TRUE), GoalLine("p", 2, 2, TRUE),
      GoalLine("p", 0, 1, TRUE),
      [k |-> "cond", cond |-> <<"#", "x", ">", "=", "5">>,
       action |-> [k |-> "clear"]] }
    \cup { [k |-> "loop", shape |-> "ok", times |-> n] : n \in 0..MaxTimes }

Scripts == UNION { [1..n -> ScriptLines] : n \in 0..MaxScript }

(***************************************************************************)
(* HSP.run, one pass of its loop at a time, and a call of execute_line     *)
(* from outside run.                                                       *)
(***************************************************************************)
\* `if not line or line.startswith(cent)`
Skipped(line) == line.k \in {"blank", "comment", "output"}

\* a run that stops at the first handler that raises
NextIndexAbort(i, raised, n) == IF raised THEN n ELSE i + 1

\* the index after a line was handled; raised tells that the handler raised
NextIndex(i, raised, n) == i + 1

Install(S) ==
    /\ pools' = S.pools
    /\ vars' = S.vars
    /\ output' = S.output
    /\ stats' = S.stats
    /\ last_record' = S.last_record

\* the statistics run() starts with
RunStats(st, now) == [st EXCEPT !.start_time = now, !.lines = 0]

RunStart ==
    /\ pc \in {"idle", "returned"}
    /\ clock < MaxClock
    /\ \E code \in Scripts : script' = code
    /\ clock' = clock + 1
    /\ output' = <<>>
    /\ stats' = RunStats(stats, clock')
    /\ idx' = 0
    /\ pc' = "loop"
    /\ dispatched' = <<>>
    /\ last' = [op |-> "run"]
    /\ UNCHANGED <<pools, vars, last_record, returned, call>>

LastLine(line, r) ==
    [op |-> "line", line |-> line, raised |-> r.raised, trail |-> r.trail,
     checks |-> r.checks]

\* the except clause of run(): the error message
Caught(r) == IF r.raised THEN Emit(r.s, <<"error">>) ELSE r.s

Dispatch(line, r) ==
    /\ Caught(r).stats.draws <= MaxDraws
    /\ Install(Caught(r))
    /\ idx' = NextIndex(idx, r.raised, Len(script))
    /\ dispatched' = Append(dispatched, [line |-> line, raised |-> r.raised])
    /\ last' = LastLine(line, r)

Skip(line) ==
    /\ idx' = idx + 1
    /\ last' = [op |-> "skip", line |-> line]
    /\ UNCHANGED <<pools, vars, output, stats, last_record, dispatched>>

Counted(S) == [S EXCEPT !.stats.lines = @ + 1]

StepOn(line) ==
    IF Skipped(line) THEN Skip(line)
    ELSE \E rolls \in RollsFor(line) :
           Dispatch(line, execute_line(line, Counted(Session), rolls))

RunStep ==
    /\ pc = "loop"
    /\ idx < Len(script)
    /\ StepOn(script[idx + 1])
    /\ UNCHANGED <<clock, pc, script, returned, call>>

RunReturn ==
    /\ pc = "loop"
    /\ idx >= Len(script)
    /\ pc' = "returned"
    /\ returned' = output
    /\ last' = [op |-> "return"]
    /\ UNCHANGED <<pools, vars, output, stats, last_record, clock, script,
                   idx, dispatched, call>>

Interact(line, r) ==
    /\ r.s.stats.draws <= MaxDraws
    /\ Len(r.s.output) <= MaxOut
    /\ Install(r.s)
    /\ last' = LastLine(line, r)

\* execute_line called by the interactive loop
ExecuteLine ==
    /\ pc \in {"idle", "returned"}
    /\ \E line \in Lines : \E rolls \in RollsFor(line) :
         Interact(line, execute_line(line, Session, rolls))
    /\ UNCHANGED <<clock, pc, script, idx, returned, dispatched, call>>

Init ==
    /\ InitFields
    /\ vars = EmptyMap
    /\ call = NoCall

\* main() either reads lines and hands each to execute_line, or hands one
\* script to run(); Spec is the first, SpecRun is run() called any number
\* of times on one session
Next == ExecuteLine

Spec == Init /\ [][Next]_vars_all

NextRun == RunStart \/ RunStep \/ RunReturn

SpecRun == Init /\ [][NextRun]_vars_all

(***************************************************************************)
(* eval_condition as a function of the condition text and the variables.   *)
(***************************************************************************)
Five == Dec(5, <<>>)

CondOperands == { <<"#", "x">>, <<"5">>, <<"7">>, <<"a">> }

CondTexts ==
    { l \o sp \o Ops[k] \o sp \o r :
        l \in CondOperands, r \in CondOperands, k \in 1..Len(Ops),
        sp \in { <<>>, <<" ">> } }

CondVars ==
    {EmptyMap} \cup { [n \in {VarX} |-> v] :
                        v \in {Dec(3, <<>>), Five, Dec(7, <<>>), StrV(<<"a">>)} }

InitCond ==
    /\ InitFields
    /\ \E vs \in CondVars : vars = vs
    /\ \E c \in CondTexts :
         call = [fn |-> "eval_condition", arg |-> c, done |-> FALSE]

CondReturn(r) ==
    /\ call' = [fn |-> "eval_condition", arg |-> call.arg, done |-> TRUE,
                ret |-> r]
    /\ output' = Appended(output, r.msgs)

CallEvalCondition ==
    /\ call.fn = "eval_condition"
    /\ ~call.done
    /\ CondReturn(eval_condition(call.arg, vars))
    /\ UNCHANGED <<pools, vars, stats, last_record, clock, pc, script, idx,
                   returned, dispatched, last>>

NextCond == CallEvalCondition

SpecCond == InitCond /\ [][NextCond]_vars_all

(***************************************************************************)
(* eval_math as a function of the expression text and the variables, on    *)
(* the envelope around a single variable reference.                        *)
(***************************************************************************)
NameChars == {"a", "e", "x", "2"}

Names == UNION { [1..k -> NameChars] : k \in 1..MaxNameLen }

RefExpr(n) == Envelope \o <<"#">> \o n \o <<")">>

MathVars ==
    {EmptyMap} \cup { [m \in {n} |-> v] :
                        n \in Names, v \in {Five, Dec(0, <<"5">>)} }

InitMath ==
    /\ InitFields
    /\ \E vs \in MathVars : vars = vs
    /\ \E n \in Names :
         call = [fn |-> "eval_math", arg |-> RefExpr(n), name |-> n,
                 done |-> FALSE]

MathReturn(m) ==
    /\ call' = [fn |-> "eval_math", arg |-> call.arg, name |-> call.name,
                done |-> TRUE, ret |-> m]
    /\ output' = Appended(output, MathMsgs(m))

CallEvalMath ==
    /\ call.fn = "eval_math"
    /\ ~call.done
    /\ MathReturn(eval_math(call.arg, vars))
    /\ UNCHANGED <<pools, vars, stats, last_record, clock, pc, script, idx,
                   returned, dispatched, last>>

NextMath == CallEvalMath

SpecMath == InitMath /\ [][NextMath]_vars_all

(***************************************************************************)
(* Properties of the evaluators.                                           *)
(***************************************************************************)
CondCallOf(c) ==
    /\ call.fn = "eval_condition"
    /\ call.done
    /\ call.arg = c
    /\ VarX \in DOMAIN vars
    /\ vars[VarX] = Five

CondGE == <<"#", "x", ">", "=", "5">>
CondGT == <<"#", "x", ">", "5">>
CondLE == <<"#", "x", "<", "=", "5">>
CondLT == <<"#", "x", "<", "5">>

\* C1: with x = 5, "#x>=5" is split into (#x, >=, 5) and is true, "#x>5"
\* is false, "#x<=5" is split into (#x, <=, 5) and is true, "#x<5" is
\* false, and none of the four raises.
C1_TwoCharOperatorsFirst ==
    /\ CondCallOf(CondGE) =>
         /\ call.ret.exc = "none"
         /\ call.ret.op = <<">", "=">>
         /\ call.ret.parts = << <<"#", "x">>, <<"5">> >>
         /\ call.ret.val = TRUE
    /\ CondCallOf(CondGT) => call.ret.exc = "none" /\ call.ret.val = FALSE
    /\ CondCallOf(CondLE) =>
         /\ call.ret.exc = "none"
         /\ call.ret.op = <<"<", "=">>
         /\ call.ret.parts = << <<"#", "x">>, <<"5">> >>
         /\ call.ret.val = TRUE
    /\ CondCallOf(CondLT) => call.ret.exc = "none" /\ call.ret.val = FALSE

\* C9: the envelope around the single reference #n evaluates to the number
\* the variable n holds, and to 0 without a computation-error message when
\* n is undefined, whatever letters n is made of.
C9_ReferenceYieldsValue ==
    (call.fn = "eval_math" /\ call.done) =>
        IF call.name \in DOMAIN vars
        THEN /\ ~call.ret.err
             /\ NumEq(call.ret.val, vars[call.name])
        ELSE /\ ~call.ret.err
             /\ NumEq(call.ret.val, IntV(0))

(***************************************************************************)
(* Properties of run().                                                    *)
(***************************************************************************)
\* C2: when run() is about to handle its first line the output log is
\* empty, the executed-line count, the cumulative successes and the
\* cumulative draws are zero, and the start time is the time of the call.
C2_RunStartsFromResetStats ==
    (pc = "loop" /\ idx = 0) =>
        /\ output = <<>>
        /\ stats.lines = 0
        /\ stats.success = 0
        /\ stats.draws = 0
        /\ stats.start_time = clock

Dispatchable(line) == ~Skipped(line)

ErrorCount(out) == Cardinality({k \in 1..Len(out) : out[k] = "error"})

RaisedCount(ds) == Cardinality({k \in 1..Len(ds) : ds[k].raised})

\* C5: the lines run() has handed to execute_line are the non-blank,
\* non-comment lines among those it has consumed, once each and in source
\* order, whether or not a handler raised; the output log holds one error
\* message per handler that raised; the executed-line count is the number
\* of lines dispatched; and run() returns, after the last line, the output
\* log.
C5_RunNeverAborts ==
    /\ pc \in {"loop", "returned"} =>
         /\ idx <= Len(script)
         /\ Len(dispatched) = Len(SelectSeq(SubSeq(script, 1, idx), Dispatchable))
         /\ \A k \in 1..Len(dispatched) :
              dispatched[k].line = SelectSeq(SubSeq(script, 1, idx), Dispatchable)[k]
         /\ stats.lines = Len(dispatched)
         /\ ErrorCount(output) = RaisedCount(dispatched)
    /\ pc = "returned" =>
         /\ idx = Len(script)
         /\ returned = output

\* a run has returned whose first line raised and whose second line was
\* dispatched after it
C5_Witness ==
    /\ pc = "returned"
    /\ Len(dispatched) = 2
    /\ dispatched[1].raised
    /\ ~dispatched[2].raised
    /\ ErrorCount(returned) = 1
    /\ pools # EmptyMap

\* C6: after a loop-record statement with a positive trial count the record
\* holds the success count, between 0 and the trial count, the trial count
\* and the rate success / times * 100, between 0 and 100, and the three
\* variables equal the three fields of the record.
C6_LoopRecord ==
    (last.op = "line" /\ last.line.k = "loop" /\ last.line.shape = "ok"
       /\ last.line.times > 0) =>
        /\ ~last.raised
        /\ last.checks = last.line.times
        /\ DOMAIN last_record = {"success", "total", "rate"}
        /\ last_record.total = IntV(last.line.times)
        /\ last_record.success.t = "int"
        /\ last_record.success.n \in 0..last.line.times
        /\ last_record.rate.num * last.line.times
             = 100 * last_record.success.n * last_record.rate.den
        /\ 0 <= last_record.rate.num
        /\ last_record.rate.num <= 100 * last_record.rate.den
        /\ {CentSuccess, CentTotal, CentRate} \subseteq DOMAIN vars
        /\ vars[CentSuccess] = last_record.success
        /\ vars[CentTotal] = last_record.total
        /\ vars[CentRate] = last_record.rate

\* a loop of two trials has ended with one success
C6_Witness ==
    /\ last.op = "line"
    /\ last.line.k = "loop"
    /\ last.line.shape = "ok"
    /\ last.line.times = 2
    /\ "success" \in DOMAIN last_record
    /\ last_record.success = IntV(1)
    /\ vars[CentRate] = Quot(50, 1)

\* the goal a handler call ran: the line, or the action of a condition
GoalOf(line) == IF line.k = "cond" THEN line.action ELSE line

GoalCompleted(l) ==
    /\ l.op = "line"
    /\ ~l.raised
    /\ l.trail[Len(l.trail)] \in {"goal_hit", "goal_guarantee"}

StatsInv ==
    /\ 0 <= stats.success
    /\ stats.success <= stats.draws
    /\ stats.draws > 0 =>
         StatsRate(stats).num <= 100 * StatsRate(stats).den

StatsStep ==
    /\ stats'.draws >= stats.draws
    /\ stats'.success >= stats.success
    /\ GoalCompleted(last') =>
         /\ stats'.draws - stats.draws \in 0..GoalOf(last'.line).guar
         /\ stats'.success - stats.success \in {0, 1}

\* C10: the cumulative successes never exceed the cumulative draws, both
\* are non-negative and never decrease, a completed goal adds between 0
\* and its guarantee count to the draws and at most 1 to the successes,
\* and the rate the stats report shows is at most 100.
C10_StatsInvariant == []StatsInv /\ [][StatsStep]_vars_all

\* two goals have hit, one of them at its second checkpoint, in two runs
C10_Witness ==
    /\ stats.success = 2
    /\ stats.draws = 3
    /\ clock = 2

(***************************************************************************)
(* Properties of the handlers.                                             *)
(***************************************************************************)
\* the line reaches execute_goal, matches the goal pattern and names a pool
\* of the registry ps whose per_item is n
GoalOn(l, ps, n) ==
    /\ l.op = "line"
    /\ l.line.k = "goal"
    /\ l.line.shape = "ok"
    /\ l.line.sc
    /\ l.line.pool \in DOMAIN ps
    /\ ps[l.line.pool].per_item = Quot(n, 1)

Min(a, b) == IF a < b THEN a ELSE b

\* the step of a goal on a pool whose per_item is 0
C3_Step ==
    GoalOn(last', pools, 0) =>
        /\ ~last'.raised
        /\ last'.trail = <<"goal_guarantee">>
        /\ output'[Len(output')] = "guarantee"
        /\ stats'.draws = stats.draws + last'.line.guar
        /\ stats'.success = stats.success
        /\ ItemVar(last'.line.item) \in DOMAIN vars'
        /\ vars'[ItemVar(last'.line.item)] = IntV(1)

\* C3: a goal on a pool whose per_item is 0 ends in the guarantee branch,
\* adds its guarantee count to the cumulative draws, leaves the cumulative
\* successes alone and leaves the item variable equal to 1.
C3_PityAlwaysGuarantees == [][C3_Step]_vars_all

\* the step of a goal with a positive guarantee on a pool whose per_item
\* is 100
C4_Step ==
    (GoalOn(last', pools, 100) /\ last'.line.guar > 0) =>
        /\ ~last'.raised
        /\ last'.trail = <<"goal_hit">>
        /\ last'.checks = 1
        /\ output' = output \o <<"goal", "hit">>
        /\ stats'.success = stats.success + 1
        /\ stats'.draws
             = stats.draws + Min(last'.line.batch, last'.line.guar)
        /\ ItemVar(last'.line.item) \in DOMAIN vars'
        /\ vars'[ItemVar(last'.line.item)] = IntV(1)

\* C4: a goal with a guarantee above 0 on a pool whose per_item is 100
\* hits at its first checkpoint: it prints the goal and the success message
\* and nothing else, adds 1 to the cumulative successes and
\* min(batch, guarantee) to the cumulative draws, sets the item variable
\* to 1 and evaluates one checkpoint.
C4_CertainHit == [][C4_Step]_vars_all

PoolInv ==
    \A n \in DOMAIN pools :
        /\ Len(pools[n].items) >= 1
        /\ pools[n].per_item.num * pools[n].prob.den * Len(pools[n].items)
             = pools[n].prob.num * pools[n].per_item.den

PoolDefined(l) ==
    /\ l.op = "line"
    /\ l.line.k = "pool"
    /\ l.line.shape = "ok"
    /\ ~l.raised

PoolStep ==
    /\ DOMAIN pools \subseteq DOMAIN pools'
    /\ IF PoolDefined(last')
       THEN /\ DOMAIN pools' = DOMAIN pools \cup {last'.line.name}
            /\ pools'[last'.line.name].items = last'.line.items
            /\ pools'[last'.line.name].prob = parse_prob(last'.line.prob).val
            /\ \A m \in DOMAIN pools \ {last'.line.name} :
                 pools'[m] = pools[m]
       ELSE pools' = pools

\* C7: every stored pool has at least one item and per_item = prob / number
\* of items; a pool definition replaces the whole entry of its name by the
\* new probability and items and leaves every other pool as it was; no
\* statement removes a pool or changes one otherwise.
C7_PoolRegistry == []PoolInv /\ [][PoolStep]_vars_all

\* the pool p was defined, q was defined, and p was defined again with
\* two items
C7_Witness ==
    /\ output = <<"pool", "pool", "pool">>
    /\ DOMAIN pools = {"p", "q"}
    /\ PoolDefined(last)
    /\ last.line.name = "p"
    /\ pools["p"].items = <<"a", "b">>
    /\ pools["p"].per_item = Quot(50, 1)

\* the line is one of the three reported errors, in the registry ps
ReportedError(l, ps) ==
    /\ l.op = "line"
    /\ \/ l.line.k = "pool" /\ l.line.shape = "nomatch"
       \/ l.line.k = "goal" /\ l.line.shape = "nomatch"
       \/ l.line.k = "goal" /\ l.line.shape = "ok"
            /\ l.line.pool \notin DOMAIN ps

C8_Step ==
    ReportedError(last', pools) =>
        /\ ~last'.raised
        /\ Len(output') = Len(output) + 1
        /\ SubSeq(output', 1, Len(output)) = output
        /\ output'[Len(output')] \notin {"goal", "error"}
        /\ vars' = vars
        /\ pools' = pools
        /\ stats'.draws = stats.draws
        /\ stats'.success = stats.success
        /\ last_record' = last_record

\* C8: a pool line the pool pattern does not match, a goal line the goal
\* pattern does not match and a goal line that names a pool not in the
\* registry each append one message, which is not the goal declaration,
\* raise nothing, and leave the variables, the registry, the draw and
\* success counters and the last record as they were.
C8_ReportedErrorsKeepState == [][C8_Step]_vars_all

\* a goal on a pool that is not defined was reported, in a session that
\* holds a pool and a variable
C8_Witness ==
    /\ last.op = "line"
    /\ last.trail = <<"goal_no_pool">>
    /\ output[Len(output)] = "pool_missing"
    /\ pools # EmptyMap
    /\ vars # EmptyMap

====
